---- MODULE Spec2Model ----
(***************************************************************************)
(* Planar audio channel buffers: one flat allocation carved into channel   *)
(* runs.  Memory is modelled by addresses: a buffer holds the address of   *)
(* the first element of its data (ptr), the data itself, and the cached    *)
(* channel start addresses (offsets), exactly as the Rust structs hold a   *)
(* Vec / slice plus raw pointers.  A slice is a (ptr, len) pair, as built  *)
(* by core::slice::from_raw_parts.                                         *)
(***************************************************************************)
EXTENDS Integers, Sequences, FiniteSets, TLC

VARIABLES buf, ret, nwrites, view, new_self, stray

vars == <<buf, ret, nwrites, view, new_self, stray>>

(***************************************************************************)
(* Bounds of the model.  CHANNELS, MAX_CHANNELS and INSTANCES are the      *)
(* const generic parameters, instantiated small.  UsizeBits is the width   *)
(* of the machine word.                                                    *)
(***************************************************************************)
CHANNELS == 2
MAX_CHANNELS == 2
INSTANCES == 2
MaxFrames == 2
MaxLen == 4
MaxInstArg == 3
MaxWrites == 1
UsizeBits == 8

\* T::default()
Default == 0

\* the sample values T ranges over
Val == {0, 1}

\* usize arithmetic is modulo 2^w
Usize == 2 ^ UsizeBits

\* addresses an allocation (or a caller's slice) may start at
AllocAddrs == {3}

\* a * b in usize: wraps when overflow checks are off
usize_mul(a, b) == (a * b) % Usize

\* a - b in usize: wraps when overflow checks are off
usize_sub(a, b) == (a - b) % Usize

\* usize::min
min(a, b) == IF a < b THEN a ELSE b

\* core::slice::from_raw_parts(ptr, len)
from_raw_parts(ptr, len) == [ptr |-> ptr, len |-> len]

\* Option<T>
None == [some |-> FALSE]

Some(x) == [some |-> TRUE, val |-> x]

\* no object constructed yet
NoBuffer ==
    [family |-> "none", ptr |-> 0, data |-> <<>>, offsets |-> <<>>,
     frames |-> 0, instance_length |-> 0]

\* the constructor panicked: no object exists
Panicked ==
    [family |-> "panic", ptr |-> 0, data |-> <<>>, offsets |-> <<>>,
     frames |-> 0, instance_length |-> 0]

\* no view is borrowed from the object
NoView ==
    [family |-> "none", ptr |-> 0, len |-> 0, offsets |-> <<>>, frames |-> 0]

\* an element Vec::set_len exposes without initialising it
Uninit == -1

\* Vec::reserve_exact(buffer_len) + set_len(buffer_len) on a fresh Vec
vec_set_len(buffer_len) == [k \in 1..buffer_len |-> Uninit]

\* the address the allocator gives the Vec of a clone while the original lives
CloneAddrs == {100}

\* Vec::resize(buffer_len, Default::default()) on a fresh Vec
vec_resize(buffer_len, value) == [k \in 1..buffer_len |-> value]

\* the slices a caller may lend to a borrowed view
CallerData ==
    UNION {{[k \in 1..n |-> Default], [k \in 1..n |-> k % 2]} : n \in 0..MaxLen}

FixedFamilies == {"ChannelBuffer", "ChannelBufferRef", "ChannelBufferRefMut"}

VarFamilies == {"VarChannelBuffer", "VarChannelBufferRef", "VarChannelBufferRefMut"}

OwnedFamilies == {"ChannelBuffer", "VarChannelBuffer"}

BorrowedFamilies ==
    {"ChannelBufferRef", "ChannelBufferRefMut",
     "VarChannelBufferRef", "VarChannelBufferRefMut"}

MutableFamilies ==
    {"ChannelBuffer", "VarChannelBuffer", "ChannelBufferRefMut", "VarChannelBufferRefMut"}

ChannelFamilies == FixedFamilies \cup VarFamilies

(***************************************************************************)
(* Constructors.  ptr is the address the allocator (or the caller's        *)
(* slice) has; oc says whether the build checks arithmetic overflow        *)
(* (debug: panic) or wraps (release).                                      *)
(***************************************************************************)

\* channel_offsets with ch_i + frames written for ch_i * frames
channel_offsets_added(ptr, n, frames) ==
    [ch \in 1..n |-> ptr + (((ch - 1) + frames) % Usize)]

\* the offsets array [ptr.add(ch_i * frames)] for ch_i in 0..n
channel_offsets(ptr, n, frames) ==
    [ch \in 1..n |-> ptr + usize_mul(ch - 1, frames)]

\* ChannelBuffer::empty
ChannelBuffer_empty(ptr) ==
    [family |-> "ChannelBuffer", ptr |-> ptr, data |-> <<>>,
     offsets |-> [ch \in 1..CHANNELS |-> ptr],
     frames |-> 0, instance_length |-> 0]

\* ChannelBuffer::new
ChannelBuffer_new(ptr, frames, oc) ==
    IF oc /\ CHANNELS * frames >= Usize
    THEN Panicked
    ELSE LET buffer_len == usize_mul(CHANNELS, frames)
             data == vec_resize(buffer_len, Default)
         IN  [family |-> "ChannelBuffer", ptr |-> ptr, data |-> data,
              offsets |-> channel_offsets(ptr, CHANNELS, frames),
              frames |-> frames, instance_length |-> 0]

\* VarChannelBuffer::empty pushing no channel start
VarChannelBuffer_empty_zero(ptr) ==
    [family |-> "VarChannelBuffer", ptr |-> ptr, data |-> <<>>,
     offsets |-> <<>>,
     frames |-> 0, instance_length |-> 0]

\* VarChannelBuffer::empty
VarChannelBuffer_empty(ptr) ==
    [family |-> "VarChannelBuffer", ptr |-> ptr, data |-> <<>>,
     offsets |-> <<ptr>>,
     frames |-> 0, instance_length |-> 0]

\* VarChannelBuffer::new sizing the allocation by the cap, not by channels
VarChannelBuffer_new_cap(ptr, channels, frames, oc) ==
    IF ~(channels <= MAX_CHANNELS)
    THEN Panicked
    ELSE [family |-> "VarChannelBuffer", ptr |-> ptr,
          data |-> [k \in 1..usize_mul(MAX_CHANNELS, frames) |-> Default],
          offsets |-> [ch \in 1..channels |-> ptr + usize_mul(ch - 1, frames)],
          frames |-> frames, instance_length |-> 0]

\* VarChannelBuffer::new
VarChannelBuffer_new(ptr, channels, frames, oc) ==
    IF ~(channels <= MAX_CHANNELS)
    THEN Panicked
    ELSE IF oc /\ channels * frames >= Usize
    THEN Panicked
    ELSE LET buffer_len == usize_mul(channels, frames)
             data == vec_resize(buffer_len, Default)
         IN  [family |-> "VarChannelBuffer", ptr |-> ptr, data |-> data,
              offsets |-> channel_offsets(ptr, channels, frames),
              frames |-> frames, instance_length |-> 0]

\* ChannelBufferRef::empty / ChannelBufferRefMut::empty
ChannelBufferRef_empty(family, ptr) ==
    [family |-> family, ptr |-> ptr, data |-> <<>>,
     offsets |-> [ch \in 1..CHANNELS |-> ptr],
     frames |-> 0, instance_length |-> 0]

\* ChannelBufferRef::new rounding the frame count up
ChannelBufferRef_new_ceil(family, ptr, data) ==
    LET frames == (Len(data) + CHANNELS - 1) \div CHANNELS
    IN  [family |-> family, ptr |-> ptr, data |-> data,
         offsets |-> [ch \in 1..CHANNELS |-> ptr + usize_mul(ch - 1, frames)],
         frames |-> frames, instance_length |-> 0]

\* ChannelBufferRef::new / ChannelBufferRefMut::new
ChannelBufferRef_new(family, ptr, data) ==
    LET frames == Len(data) \div CHANNELS
    IN  [family |-> family, ptr |-> ptr, data |-> data,
         offsets |-> channel_offsets(ptr, CHANNELS, frames),
         frames |-> frames, instance_length |-> 0]

\* VarChannelBufferRef::empty pushing a channel start for every channel up
\* to the cap
VarChannelBufferRef_empty_cap(family, ptr) ==
    [family |-> family, ptr |-> ptr, data |-> <<>>,
     offsets |-> [ch \in 1..MAX_CHANNELS |-> ptr],
     frames |-> 0, instance_length |-> 0]

\* VarChannelBufferRef::empty / VarChannelBufferRefMut::empty
VarChannelBufferRef_empty(family, ptr) ==
    [family |-> family, ptr |-> ptr, data |-> <<>>,
     offsets |-> <<ptr>>,
     frames |-> 0, instance_length |-> 0]

\* VarChannelBufferRef::new dividing by the cap, not by channels
VarChannelBufferRef_new_cap(family, ptr, data, channels) ==
    IF ~(channels <= MAX_CHANNELS)
    THEN Panicked
    ELSE LET frames == Len(data) \div MAX_CHANNELS
         IN  [family |-> family, ptr |-> ptr, data |-> data,
              offsets |-> [ch \in 1..channels |-> ptr + usize_mul(ch - 1, frames)],
              frames |-> frames, instance_length |-> 0]

\* VarChannelBufferRef::new without the assert on the channel count
VarChannelBufferRef_new_noassert(family, ptr, data, channels) ==
    [family |-> family, ptr |-> ptr, data |-> data,
     offsets |-> [ch \in 1..channels |->
                     ptr + usize_mul(ch - 1, Len(data) \div channels)],
     frames |-> Len(data) \div channels, instance_length |-> 0]

\* VarChannelBufferRef::new / VarChannelBufferRefMut::new.  When the assert
\* fails no view exists; data is the caller's slice as the call left it.
VarChannelBufferRef_new(family, ptr, data, channels) ==
    IF ~(channels <= MAX_CHANNELS)
    THEN [Panicked EXCEPT !.data = data]
    ELSE LET frames == Len(data) \div channels
         IN  [family |-> family, ptr |-> ptr, data |-> data,
              offsets |-> channel_offsets(ptr, channels, frames),
              frames |-> frames, instance_length |-> 0]

\* InstanceChannelBuffer::new
InstanceChannelBuffer_new(ptr, num_instances, frames, oc) ==
    IF oc /\ (frames * CHANNELS >= Usize
              \/ usize_mul(frames, CHANNELS) * num_instances >= Usize)
    THEN Panicked
    ELSE LET instance_length == usize_mul(frames, CHANNELS)
             buffer_len == usize_mul(instance_length, num_instances)
             data == vec_resize(buffer_len, Default)
         IN  [family |-> "InstanceChannelBuffer", ptr |-> ptr, data |-> data,
              offsets |->
                  [inst \in 1..INSTANCES |->
                      [ch \in 1..CHANNELS |->
                          ptr + ((usize_mul(instance_length, inst - 1)
                                  + usize_mul(frames, ch - 1)) % Usize)]],
              frames |-> frames, instance_length |-> instance_length]

\* ChannelBuffer::new_uninit
ChannelBuffer_new_uninit(ptr, frames, oc) ==
    IF oc /\ CHANNELS * frames >= Usize
    THEN Panicked
    ELSE LET buffer_len == usize_mul(CHANNELS, frames)
             data == vec_set_len(buffer_len)
         IN  [family |-> "ChannelBuffer", ptr |-> ptr, data |-> data,
              offsets |-> channel_offsets(ptr, CHANNELS, frames),
              frames |-> frames, instance_length |-> 0]

\* VarChannelBuffer::new_uninit
VarChannelBuffer_new_uninit(ptr, channels, frames, oc) ==
    IF ~(channels <= MAX_CHANNELS)
    THEN Panicked
    ELSE IF oc /\ channels * frames >= Usize
    THEN Panicked
    ELSE LET buffer_len == usize_mul(channels, frames)
             data == vec_set_len(buffer_len)
         IN  [family |-> "VarChannelBuffer", ptr |-> ptr, data |-> data,
              offsets |-> channel_offsets(ptr, channels, frames),
              frames |-> frames, instance_length |-> 0]

\* InstanceChannelBuffer::empty
InstanceChannelBuffer_empty(ptr) ==
    [family |-> "InstanceChannelBuffer", ptr |-> ptr, data |-> <<>>,
     offsets |-> [inst \in 1..INSTANCES |-> [ch \in 1..CHANNELS |-> ptr]],
     frames |-> 0, instance_length |-> 0]

\* InstanceChannelBuffer::new_uninit
InstanceChannelBuffer_new_uninit(ptr, num_instances, frames, oc) ==
    IF oc /\ (frames * CHANNELS >= Usize
              \/ usize_mul(frames, CHANNELS) * num_instances >= Usize)
    THEN Panicked
    ELSE LET instance_length == usize_mul(frames, CHANNELS)
             buffer_len == usize_mul(instance_length, num_instances)
             data == vec_set_len(buffer_len)
         IN  [family |-> "InstanceChannelBuffer", ptr |-> ptr, data |-> data,
              offsets |->
                  [inst \in 1..INSTANCES |->
                      [ch \in 1..CHANNELS |->
                          ptr + ((usize_mul(instance_length, inst - 1)
                                  + usize_mul(frames, ch - 1)) % Usize)]],
              frames |-> frames, instance_length |-> instance_length]

\* new_self.raw_mut().copy_from_slice(src): panics unless the lengths agree
copy_from_slice(new, src) ==
    IF new.family = "panic" THEN Panicked
    ELSE IF Len(new.data) # Len(src) THEN Panicked
    ELSE [new EXCEPT !.data = src]

(***************************************************************************)
(* Accessors.  The six channel-buffer types have textually the same        *)
(* accessors; the fixed ones take the channel count from the const         *)
(* parameter, the variable ones from the length of the offsets ArrayVec.   *)
(***************************************************************************)

\* channels()
channels(b) ==
    IF b.family \in FixedFamilies THEN CHANNELS ELSE Len(b.offsets)

\* frames()
frames(b) == b.frames

\* raw()
raw(b) == b.data

\* channel_unchecked forgetting the stride: base pointer plus index
channel_unchecked_nostride(b, index) ==
    [ptr |-> b.ptr + index, len |-> b.frames]

\* channel_unchecked / channel_unchecked_mut
channel_unchecked(b, index) ==
    from_raw_parts(b.offsets[index + 1], b.frames)

\* channel with the bound test off by one: index <= channels
channel_inclusive(b, index) ==
    IF index <= (IF b.family \in FixedFamilies THEN CHANNELS ELSE Len(b.offsets))
    THEN [some |-> TRUE, val |-> [ptr |-> b.ptr + index * b.frames, len |-> b.frames]]
    ELSE [some |-> FALSE]

\* channel
channel(b, index) ==
    IF index < channels(b) THEN Some(channel_unchecked(b, index)) ELSE None

\* channel_mut handing out everything from the channel start to the end of
\* the last channel
channel_mut_tail(b, index) ==
    IF index < channels(b)
    THEN Some(from_raw_parts(b.offsets[index + 1], (channels(b) - index) * b.frames))
    ELSE None

\* channel_mut
channel_mut(b, index) ==
    IF index < channels(b) THEN Some(channel_unchecked(b, index)) ELSE None

\* as_slices / as_mut_slices
as_slices(b) ==
    [ch \in 1..channels(b) |-> from_raw_parts(b.offsets[ch], b.frames)]

\* as_slices_with_length without the clamp to self.frames
as_slices_with_length_unclamped(b, n) ==
    [ch \in 1..Len(b.offsets) |-> [ptr |-> b.offsets[ch], len |-> n]]

\* as_slices_with_length / as_mut_slices_with_length
as_slices_with_length(b, n) ==
    LET len == min(n, b.frames)
    IN  [ch \in 1..channels(b) |-> from_raw_parts(b.offsets[ch], len)]

\* as_slices_with_range / as_mut_slices_with_range
as_slices_with_range(b, start, end, oc) ==
    LET start_frame == min(start, b.frames)
        end_frame == min(end, b.frames)
    IN  IF oc /\ end_frame < start_frame
        THEN [panicked |-> TRUE, slices |-> <<>>]
        ELSE [panicked |-> FALSE,
              slices |->
                  [ch \in 1..channels(b) |->
                      from_raw_parts(b.offsets[ch] + start_frame,
                                     usize_sub(end_frame, start_frame))]]

\* num_instances()
num_instances(b) == Len(b.offsets)

\* instance_unchecked: the view handed to ChannelBufferRef::from_raw
instance_unchecked(b, index) ==
    [family |-> "ChannelBufferRef",
     ptr |-> b.offsets[index + 1][1],
     len |-> b.instance_length,
     offsets |-> b.offsets[index + 1],
     frames |-> b.frames]

\* instance
instance(b, index) ==
    IF index < num_instances(b) THEN Some(instance_unchecked(b, index)) ELSE None

\* instance_unchecked_mut: the view handed to ChannelBufferRefMut::from_raw
instance_unchecked_mut(b, index) ==
    [family |-> "ChannelBufferRefMut",
     ptr |-> b.offsets[index + 1][1],
     len |-> b.instance_length,
     offsets |-> b.offsets[index + 1],
     frames |-> b.frames]

\* instance_mut
instance_mut(b, index) ==
    IF index < num_instances(b) THEN Some(instance_unchecked_mut(b, index)) ELSE None

\* all_instances: array::from_fn(|inst_i| instance_unchecked(inst_i))
all_instances(b) ==
    [inst \in 1..INSTANCES |-> instance_unchecked(b, inst - 1)]

\* all_instances_mut stepping from instance to instance by frames, not by
\* instance_length
all_instances_mut_framestride(b) ==
    [inst \in 1..INSTANCES |->
        [family |-> "ChannelBufferRefMut",
         ptr |-> b.ptr + (inst - 1) * b.frames,
         len |-> b.instance_length,
         offsets |-> [ch \in 1..CHANNELS |->
                         b.ptr + (inst - 1) * b.frames + (ch - 1) * b.frames],
         frames |-> b.frames]]

\* all_instances_mut: array::from_fn(|inst_i| ChannelBufferRefMut::from_raw(..))
all_instances_mut(b) ==
    [inst \in 1..INSTANCES |->
        [family |-> "ChannelBufferRefMut",
         ptr |-> b.offsets[inst][1],
         len |-> b.instance_length,
         offsets |-> b.offsets[inst],
         frames |-> b.frames]]

\* Option::unwrap_or_default: the value, or an empty slice
unwrap_or_default(o) ==
    IF o.some THEN [panicked |-> FALSE, val |-> o.val]
    ELSE [panicked |-> FALSE, val |-> from_raw_parts(0, 0)]

\* Option::unwrap: the value, or a panic
unwrap(o) ==
    IF o.some THEN [panicked |-> FALSE, val |-> o.val]
    ELSE [panicked |-> TRUE]

\* Index::index: self.channel(index).unwrap()
Index_index(b, i) == unwrap(channel(b, i))

\* IndexMut::index_mut: self.channel_mut(index).unwrap()
IndexMut_index_mut(b, i) == unwrap(channel_mut(b, i))

(***************************************************************************)
(* Memory.  The live allocations are the data of buf and of new_self; a    *)
(* view holds no elements, only the address and length of the slice it     *)
(* was built over.  Stores are resolved by address against every live      *)
(* allocation; stray holds what stores outside every allocation left       *)
(* behind in foreign memory.                                               *)
(***************************************************************************)

\* the addresses of the elements an object's data holds
Alloc(b) ==
    IF b.family \in {"none", "panic"} THEN {}
    ELSE b.ptr..(b.ptr + Len(b.data) - 1)

\* the addresses a slice covers
addrs(s) == s.ptr..(s.ptr + s.len - 1)

\* the stores done by emptying the Vec and pushing what is written:
\* Vec::clear() then Vec::resize(count, v)
fill_resized(m, W, v) ==
    IF W \cap Alloc(m) = {} THEN m
    ELSE [m EXCEPT !.data = [p \in 1..Cardinality(W \cap Alloc(m)) |-> v]]

\* slice::fill(v) / element stores, as they land on the allocation of m
fill(m, W, v) ==
    [m EXCEPT !.data =
        [p \in 1..Len(m.data) |-> IF m.ptr + p - 1 \in W THEN v ELSE m.data[p]]]

\* the element found at an address
mem(a) ==
    IF a \in Alloc(buf) THEN buf.data[a - buf.ptr + 1]
    ELSE IF a \in Alloc(new_self) THEN new_self.data[a - new_self.ptr + 1]
    ELSE IF a \in DOMAIN stray THEN stray[a]
    ELSE Uninit

\* &mut self taken as if it were &self
Unborrowed_shared ==
    view.family \notin {"ChannelBufferRefMut", "VarChannelBufferRefMut"}

\* the borrow rules: &self needs no outstanding &mut borrow, &mut self needs
\* no outstanding borrow at all
Shareable ==
    view.family \notin {"ChannelBufferRefMut", "VarChannelBufferRefMut"}

Unborrowed == view.family = "none"

\* as_ref: the shared view from_raw(&self.data, offsets, frames)
as_ref(b) ==
    [family |-> IF b.family = "ChannelBuffer" THEN "ChannelBufferRef"
                ELSE "VarChannelBufferRef",
     ptr |-> b.ptr, len |-> Len(b.data), offsets |-> b.offsets,
     frames |-> b.frames]

\* as_mut handing the view a channel start for every channel up to the cap
as_mut_cap(b) ==
    [family |-> IF b.family = "ChannelBuffer" THEN "ChannelBufferRefMut"
                ELSE "VarChannelBufferRefMut",
     ptr |-> b.ptr, len |-> Len(b.data),
     offsets |-> IF b.family = "ChannelBuffer" THEN b.offsets
                 ELSE [ch \in 1..MAX_CHANNELS |-> b.ptr + (ch - 1) * b.frames],
     frames |-> b.frames]

\* as_mut: the exclusive view from_raw(&mut self.data, offsets, frames)
as_mut(b) ==
    [family |-> IF b.family = "ChannelBuffer" THEN "ChannelBufferRefMut"
                ELSE "VarChannelBufferRefMut",
     ptr |-> b.ptr, len |-> Len(b.data), offsets |-> b.offsets,
     frames |-> b.frames]

\* the downgrade done by building a new read-only view over the data:
\* ChannelBufferRef::new(data) / VarChannelBufferRef::new(data, MAX_CHANNELS)
downgrade_rebuilt(v) ==
    LET n == IF "len" \in DOMAIN v THEN v.len ELSE Len(v.data)
        ch == IF v.family = "ChannelBufferRefMut" THEN CHANNELS ELSE MAX_CHANNELS
    IN  [v EXCEPT !.family = IF @ = "ChannelBufferRefMut" THEN "ChannelBufferRef"
                             ELSE "VarChannelBufferRef",
                  !.frames = n \div ch,
                  !.offsets = [c \in 1..ch |-> v.ptr + (c - 1) * (n \div ch)]]

\* Into<ChannelBufferRef> for ChannelBufferRefMut, and the Var counterpart:
\* same data, offsets and frames
downgrade(v) ==
    [v EXCEPT !.family = IF @ = "ChannelBufferRefMut" THEN "ChannelBufferRef"
                         ELSE "VarChannelBufferRef"]

\* a derived Clone: the Vec is cloned into its own allocation, the cached
\* channel pointers are copied as they are
clone_derived(b, ptr, oc) == [b EXCEPT !.ptr = ptr]

\* Clone::clone of ChannelBuffer, VarChannelBuffer, InstanceChannelBuffer
clone(b, ptr, oc) ==
    copy_from_slice(
        CASE b.family = "ChannelBuffer" ->
                 ChannelBuffer_new_uninit(ptr, b.frames, oc)
          [] b.family = "VarChannelBuffer" ->
                 VarChannelBuffer_new_uninit(ptr, channels(b), b.frames, oc)
          [] OTHER ->
                 InstanceChannelBuffer_new_uninit(ptr, num_instances(b), b.frames, oc),
        raw(b))

\* the objects a call can be made on: the object under test, a view
\* borrowed from it, a clone of it
Objects == {"buf", "view", "new_self"}

Target(obj) ==
    CASE obj = "buf" -> buf
      [] obj = "view" -> view
      [] OTHER -> new_self

\* raw_mut(): the slice over the whole region of a buffer or view
raw_mut(t) ==
    from_raw_parts(t.ptr, IF "len" \in DOMAIN t THEN t.len ELSE Len(t.data))

\* the elements raw() shows
contents(t) == [k \in 1..raw_mut(t).len |-> mem(t.ptr + k - 1)]

\* what a caller reads off an object through raw(), frames(), channels()
observe(t) ==
    [raw |-> contents(t), frames |-> frames(t),
     channels |-> IF t.family \in ChannelFamilies THEN channels(t) ELSE CHANNELS]

\* clear filling the channel runs only, not the whole region
clear_channels(t) ==
    LET n == IF t.family \in VarFamilies THEN Len(t.offsets) ELSE CHANNELS
    IN  t.ptr..(t.ptr + n * t.frames - 1)

\* clear(): the elements self.raw_mut().fill(T::default()) stores to
clear(t) == addrs(raw_mut(t))

\* clear_frames filling each channel whole, whatever the frames argument
clear_frames_whole(t, k) ==
    UNION {t.offsets[ch]..(t.offsets[ch] + t.frames - 1) : ch \in 1..Len(t.offsets)}

\* clear_frames(frames): the elements the fill of each slice of
\* as_mut_slices_with_length(frames) stores to
clear_frames(t, k) ==
    UNION {addrs(as_slices_with_length(t, k)[ch]) : ch \in 1..channels(t)}

\* the element a write through slice s at position j lands on: s[j] = v
slice_write(b, s, j, v) ==
    [b EXCEPT !.data = [@ EXCEPT ![s.ptr - b.ptr + j + 1] = v]]

\* the element read through slice s at position j: s[j]
slice_read(b, s, j) == b.data[s.ptr - b.ptr + j + 1]

(***************************************************************************)
(* The state machine: one object is constructed, then the public API is    *)
(* called on it.  ret holds the last call, its arguments and its result.   *)
(* view is the view currently borrowed from the object, new_self the       *)
(* result of clone(), stray the stores that landed outside every live      *)
(* allocation.                                                             *)
(***************************************************************************)

FrameArgs == 0..MaxFrames

LengthArgs == 0..(MaxFrames + 1)

IndexArgs == 0..((IF CHANNELS > MAX_CHANNELS THEN CHANNELS ELSE MAX_CHANNELS) + 1)

ChannelArgs == 1..(MAX_CHANNELS + 1)

\* the &mut [T] slices the mutable accessors of an object hand out:
\* raw_mut, channel_mut, as_mut_slices, as_mut_slices_with_length
mut_slices(t) ==
    {raw_mut(t)}
    \cup (IF t.family \in MutableFamilies
          THEN {channel_mut(t, i).val : i \in 0..(channels(t) - 1)}
               \cup {as_slices(t)[ch] : ch \in 1..channels(t)}
               \cup {as_slices_with_length(t, n)[ch] :
                         n \in LengthArgs, ch \in 1..channels(t)}
          ELSE {})

Init ==
    /\ buf = NoBuffer
    /\ ret = [op |-> "none"]
    /\ nwrites = 0
    /\ view = NoView
    /\ new_self = NoBuffer
    /\ stray = <<>>

NewChannelBuffer ==
    /\ buf.family = "none"
    /\ \E ptr \in AllocAddrs, fr \in FrameArgs, oc \in BOOLEAN :
           /\ buf' = ChannelBuffer_new(ptr, fr, oc)
           /\ ret' = [op |-> "new", family |-> "ChannelBuffer", channels |-> CHANNELS, frames |-> fr]
    /\ UNCHANGED <<nwrites, view, new_self, stray>>

EmptyChannelBuffer ==
    /\ buf.family = "none"
    /\ \E ptr \in AllocAddrs :
           /\ buf' = ChannelBuffer_empty(ptr)
           /\ ret' = [op |-> "empty", family |-> "ChannelBuffer"]
    /\ UNCHANGED <<nwrites, view, new_self, stray>>

NewVarChannelBuffer ==
    /\ buf.family = "none"
    /\ \E ptr \in AllocAddrs, ch \in ChannelArgs, fr \in FrameArgs, oc \in BOOLEAN :
           /\ buf' = VarChannelBuffer_new(ptr, ch, fr, oc)
           /\ ret' = [op |-> "new", family |-> "VarChannelBuffer", channels |-> ch, frames |-> fr]
    /\ UNCHANGED <<nwrites, view, new_self, stray>>

EmptyVarChannelBuffer ==
    /\ buf.family = "none"
    /\ \E ptr \in AllocAddrs :
           /\ buf' = VarChannelBuffer_empty(ptr)
           /\ ret' = [op |-> "empty", family |-> "VarChannelBuffer"]
    /\ UNCHANGED <<nwrites, view, new_self, stray>>

NewChannelBufferRef ==
    /\ buf.family = "none"
    /\ \E fam \in {"ChannelBufferRef", "ChannelBufferRefMut"}, ptr \in AllocAddrs, data \in CallerData :
           /\ buf' = ChannelBufferRef_new(fam, ptr, data)
           /\ ret' = [op |-> "new", family |-> fam, channels |-> CHANNELS, len |-> Len(data)]
    /\ UNCHANGED <<nwrites, view, new_self, stray>>

EmptyChannelBufferRef ==
    /\ buf.family = "none"
    /\ \E fam \in {"ChannelBufferRef", "ChannelBufferRefMut"}, ptr \in AllocAddrs :
           /\ buf' = ChannelBufferRef_empty(fam, ptr)
           /\ ret' = [op |-> "empty", family |-> fam]
    /\ UNCHANGED <<nwrites, view, new_self, stray>>

NewVarChannelBufferRef ==
    /\ buf.family = "none"
    /\ \E fam \in {"VarChannelBufferRef", "VarChannelBufferRefMut"}, ptr \in AllocAddrs, data \in CallerData, ch \in ChannelArgs :
           /\ buf' = VarChannelBufferRef_new(fam, ptr, data, ch)
           /\ ret' = [op |-> "new", family |-> fam, channels |-> ch,
                      len |-> Len(data), data |-> data]
    /\ UNCHANGED <<nwrites, view, new_self, stray>>

EmptyVarChannelBufferRef ==
    /\ buf.family = "none"
    /\ \E fam \in {"VarChannelBufferRef", "VarChannelBufferRefMut"}, ptr \in AllocAddrs :
           /\ buf' = VarChannelBufferRef_empty(fam, ptr)
           /\ ret' = [op |-> "empty", family |-> fam]
    /\ UNCHANGED <<nwrites, view, new_self, stray>>

NewInstanceChannelBuffer ==
    /\ buf.family = "none"
    /\ \E ptr \in AllocAddrs, n \in 0..MaxInstArg, fr \in FrameArgs, oc \in BOOLEAN :
           /\ buf' = InstanceChannelBuffer_new(ptr, n, fr, oc)
           /\ ret' = [op |-> "new", family |-> "InstanceChannelBuffer", num_instances |-> n, frames |-> fr]
    /\ UNCHANGED <<nwrites, view, new_self, stray>>

EmptyInstanceChannelBuffer ==
    /\ buf.family = "none"
    /\ \E ptr \in AllocAddrs :
           /\ buf' = InstanceChannelBuffer_empty(ptr)
           /\ ret' = [op |-> "empty", family |-> "InstanceChannelBuffer"]
    /\ UNCHANGED <<nwrites, view, new_self, stray>>

Observed(call) ==
    /\ ret' = call
    /\ UNCHANGED <<buf, nwrites, view, new_self, stray>>

Channel ==
    /\ buf.family \in ChannelFamilies
    /\ Shareable
    /\ \E index \in IndexArgs :
           Observed([op |-> "channel", index |-> index,
                     result |-> channel(buf, index)])

ChannelMut ==
    /\ buf.family \in MutableFamilies
    /\ Unborrowed
    /\ \E index \in IndexArgs :
           Observed([op |-> "channel_mut", index |-> index,
                     result |-> channel_mut(buf, index)])

\* channel_mut(index).unwrap()[j] = v, for an index and j inside the slice
ChannelMutWrite ==
    /\ buf.family \in MutableFamilies
    /\ Unborrowed
    /\ nwrites < MaxWrites
    /\ \E index \in IndexArgs, v \in Val :
           LET r == channel_mut(buf, index)
           IN  /\ r.some
               /\ \E j \in 0..(r.val.len - 1) :
                      /\ buf' = slice_write(buf, r.val, j, v)
                      /\ new_self' = fill(new_self, {r.val.ptr + j}, v)
                      /\ ret' = [op |-> "channel_mut_write", index |-> index,
                                 j |-> j, v |-> v]
                      /\ nwrites' = nwrites + 1
                      /\ UNCHANGED <<view, stray>>

AsSlices ==
    /\ buf.family \in ChannelFamilies
    /\ Shareable
    /\ Observed([op |-> "as_slices", slices |-> as_slices(buf)])

AsMutSlices ==
    /\ buf.family \in MutableFamilies
    /\ Unborrowed
    /\ Observed([op |-> "as_mut_slices", slices |-> as_slices(buf)])

AsSlicesWithLength ==
    /\ buf.family \in ChannelFamilies
    /\ Shareable
    /\ \E n \in LengthArgs :
           Observed([op |-> "as_slices_with_length", n |-> n,
                     slices |-> as_slices_with_length(buf, n)])

AsMutSlicesWithLength ==
    /\ buf.family \in MutableFamilies
    /\ Unborrowed
    /\ \E n \in LengthArgs :
           Observed([op |-> "as_mut_slices_with_length", n |-> n,
                     slices |-> as_slices_with_length(buf, n)])

AsSlicesWithRange ==
    /\ buf.family \in ChannelFamilies
    /\ Shareable
    /\ \E a \in LengthArgs, b \in LengthArgs, oc \in BOOLEAN :
           Observed([op |-> "as_slices_with_range", start |-> a, end |-> b,
                     result |-> as_slices_with_range(buf, a, b, oc)])

AsMutSlicesWithRange ==
    /\ buf.family \in MutableFamilies
    /\ Unborrowed
    /\ \E a \in LengthArgs, b \in LengthArgs, oc \in BOOLEAN :
           Observed([op |-> "as_mut_slices_with_range", start |-> a, end |-> b,
                     result |-> as_slices_with_range(buf, a, b, oc)])

\* stores of v to the addresses W.  Inside the live allocations they change
\* the elements there.  Outside them the behaviour is undefined: the stores
\* land in foreign memory, or the process is killed.  changed tells whether
\* an element got a value it did not have.
Mutate(W, v, call) ==
    IF W \subseteq (Alloc(buf) \cup Alloc(new_self))
    THEN /\ buf' = fill(buf, W, v)
         /\ new_self' = fill(new_self, W, v)
         /\ ret' = [call EXCEPT !.outcome = "done",
                                !.changed = \E a \in W : mem(a) # v]
         /\ UNCHANGED <<view, stray>>
    ELSE \/ /\ buf' = fill(buf, W, v)
            /\ new_self' = fill(new_self, W, v)
            /\ stray' = [a \in DOMAIN stray \cup (W \ (Alloc(buf) \cup Alloc(new_self))) |->
                             IF a \in W THEN v ELSE stray[a]]
            /\ ret' = [call EXCEPT !.outcome = "stray",
                                   !.changed = \E a \in W : mem(a) # v]
            /\ UNCHANGED view
         \/ /\ buf' = Panicked
            /\ new_self' = NoBuffer
            /\ view' = NoView
            /\ stray' = <<>>
            /\ ret' = [call EXCEPT !.outcome = "abort"]

Clear ==
    /\ buf.family \notin {"none", "panic"}
    /\ \E obj \in Objects :
           LET t == Target(obj)
           IN  /\ t.family \in MutableFamilies \cup {"InstanceChannelBuffer"}
               /\ (obj = "buf") => Unborrowed
               /\ Mutate(clear(t), Default,
                         [op |-> "clear", obj |-> obj,
                          outcome |-> "none", changed |-> FALSE])
    /\ UNCHANGED nwrites

ClearFrames ==
    /\ buf.family \notin {"none", "panic"}
    /\ \E obj \in Objects, k \in LengthArgs :
           LET t == Target(obj)
           IN  /\ t.family \in MutableFamilies
               /\ (obj = "buf") => Unborrowed
               /\ Mutate(clear_frames(t, k), Default,
                         [op |-> "clear_frames", obj |-> obj, k |-> k,
                          outcome |-> "none", changed |-> FALSE])
    /\ UNCHANGED nwrites

\* s[j] = v through a mutable slice of a view of the object or of its clone
WriteThrough ==
    /\ nwrites < MaxWrites
    /\ \E obj \in {"view", "new_self"}, v \in Val :
           LET t == Target(obj)
           IN  /\ t.family \in MutableFamilies \cup {"InstanceChannelBuffer"}
               /\ \E s \in mut_slices(t) :
                      \E j \in 0..(s.len - 1) :
                          Mutate({s.ptr + j}, v,
                                 [op |-> "write", obj |-> obj, v |-> v,
                                  outcome |-> "none", changed |-> FALSE])
    /\ nwrites' = nwrites + 1

Clone ==
    /\ buf.family \in OwnedFamilies \cup {"InstanceChannelBuffer"}
    /\ Shareable
    /\ new_self.family = "none"
    /\ \E ptr \in CloneAddrs, oc \in BOOLEAN :
           LET r == clone(buf, ptr, oc)
           IN  /\ new_self' = IF r.family = "panic" THEN NoBuffer ELSE r
               /\ ret' = [op |-> "clone", panicked |-> r.family = "panic"]
    /\ UNCHANGED <<buf, nwrites, view, stray>>

AsRef ==
    /\ buf.family \in OwnedFamilies
    /\ Unborrowed
    /\ view' = as_ref(buf)
    /\ ret' = [op |-> "as_ref"]
    /\ UNCHANGED <<buf, nwrites, new_self, stray>>

AsMut ==
    /\ buf.family \in OwnedFamilies
    /\ Unborrowed
    /\ view' = as_mut(buf)
    /\ ret' = [op |-> "as_mut"]
    /\ UNCHANGED <<buf, nwrites, new_self, stray>>

\* into() on a mutable view: the view is consumed, the shared one takes
\* its place
Downgrade ==
    /\ buf.family \notin {"none", "panic"}
    /\ \E obj \in {"buf", "view"} :
           /\ Target(obj).family \in {"ChannelBufferRefMut", "VarChannelBufferRefMut"}
           /\ (obj = "buf") => Unborrowed
           /\ buf' = IF obj = "buf" THEN downgrade(buf) ELSE buf
           /\ view' = IF obj = "view" THEN downgrade(view) ELSE view
           /\ ret' = [op |-> "downgrade", obj |-> obj]
    /\ UNCHANGED <<nwrites, new_self, stray>>

Instance ==
    /\ buf.family = "InstanceChannelBuffer"
    /\ Shareable
    /\ \E index \in 0..(INSTANCES + 1) :
           Observed([op |-> "instance", index |-> index,
                     result |-> instance(buf, index)])

InstanceMut ==
    /\ buf.family = "InstanceChannelBuffer"
    /\ Unborrowed
    /\ \E index \in 0..(INSTANCES + 1) :
           LET r == instance_mut(buf, index)
           IN  /\ view' = IF r.some THEN r.val ELSE NoView
               /\ ret' = [op |-> "instance_mut", index |-> index, result |-> r]
    /\ UNCHANGED <<buf, nwrites, new_self, stray>>

AllInstances ==
    /\ buf.family = "InstanceChannelBuffer"
    /\ Shareable
    /\ Observed([op |-> "all_instances", result |-> all_instances(buf)])

AllInstancesMut ==
    /\ buf.family = "InstanceChannelBuffer"
    /\ Unborrowed
    /\ Observed([op |-> "all_instances_mut", result |-> all_instances_mut(buf)])

\* t[index] read: &t[index]
Index ==
    /\ buf.family \in ChannelFamilies
    /\ \E obj \in {"buf", "view"}, i \in IndexArgs :
           LET t == Target(obj)
           IN  /\ t.family \in ChannelFamilies
               /\ (obj = "buf") => Shareable
               /\ Observed([op |-> "index", obj |-> obj, index |-> i,
                            result |-> Index_index(t, i)])

\* t[index] borrowed mutably: &mut t[index]
IndexMut ==
    /\ buf.family \in ChannelFamilies
    /\ \E obj \in {"buf", "view"}, i \in IndexArgs :
           LET t == Target(obj)
           IN  /\ t.family \in MutableFamilies
               /\ (obj = "buf") => Unborrowed
               /\ Observed([op |-> "index_mut", obj |-> obj, index |-> i,
                            result |-> IndexMut_index_mut(t, i)])

\* the ways to the mutable slice of one channel
Vias == {"channel_mut", "index_mut", "as_mut_slices", "as_mut_slices_with_length"}

\* the mutable slice of channel i of t that the accessor named by via hands
\* out, when it hands one out
via_slice(t, via, i, n) ==
    CASE via = "channel_mut" -> channel_mut(t, i)
      [] via = "index_mut" ->
             IF IndexMut_index_mut(t, i).panicked THEN None
             ELSE Some(IndexMut_index_mut(t, i).val)
      [] via = "as_mut_slices" ->
             IF i < Len(as_slices(t)) THEN Some(as_slices(t)[i + 1]) ELSE None
      [] OTHER ->
             IF i < Len(as_slices_with_length(t, n))
             THEN Some(as_slices_with_length(t, n)[i + 1]) ELSE None

\* s[j] = v where s is the mutable slice of channel i of the object or of
\* the view borrowed from it
WriteVia ==
    /\ buf.family \in ChannelFamilies
    /\ nwrites < MaxWrites
    /\ \E obj \in {"buf", "view"}, via \in Vias, i \in IndexArgs,
          n \in LengthArgs, v \in Val :
           LET t == Target(obj)
           IN  /\ t.family \in MutableFamilies
               /\ (obj = "buf") => Unborrowed
               /\ via_slice(t, via, i, n).some
               /\ \E j \in 0..(via_slice(t, via, i, n).val.len - 1) :
                      Mutate({via_slice(t, via, i, n).val.ptr + j}, v,
                             [op |-> "write_via", obj |-> obj, via |-> via,
                              index |-> i, j |-> j, v |-> v,
                              outcome |-> "none", changed |-> FALSE])
    /\ nwrites' = nwrites + 1

Next ==
    \/ NewChannelBuffer
    \/ EmptyChannelBuffer
    \/ NewVarChannelBuffer
    \/ EmptyVarChannelBuffer
    \/ NewChannelBufferRef
    \/ EmptyChannelBufferRef
    \/ NewVarChannelBufferRef
    \/ EmptyVarChannelBufferRef
    \/ NewInstanceChannelBuffer
    \/ EmptyInstanceChannelBuffer
    \/ Channel
    \/ ChannelMut
    \/ ChannelMutWrite
    \/ AsSlices
    \/ AsMutSlices
    \/ AsSlicesWithLength
    \/ AsMutSlicesWithLength
    \/ AsSlicesWithRange
    \/ AsMutSlicesWithRange
    \/ Instance

\* construction and the accessors of one object
Spec == Init /\ [][Next]_vars

NextMut ==
    \/ NewChannelBuffer
    \/ EmptyChannelBuffer
    \/ NewVarChannelBuffer
    \/ EmptyVarChannelBuffer
    \/ NewChannelBufferRef
    \/ EmptyChannelBufferRef
    \/ NewVarChannelBufferRef
    \/ EmptyVarChannelBufferRef
    \/ NewInstanceChannelBuffer
    \/ EmptyInstanceChannelBuffer
    \/ ChannelMutWrite
    \/ Clear
    \/ ClearFrames
    \/ WriteThrough
    \/ Clone
    \/ AsRef
    \/ AsMut
    \/ Downgrade
    \/ Instance
    \/ InstanceMut

\* construction, the mutating calls, and the objects derived from an object:
\* its clone and the view borrowed from it
SpecMut == Init /\ [][NextMut]_vars

\* the calls whose receiver is &self (or a Copy / Clone of the shared view)
SharedCalls ==
    {"channel", "as_slices", "as_slices_with_length", "as_slices_with_range",
     "instance", "all_instances", "as_ref", "clone", "index"}

\* the calls whose receiver is &mut self, or self of a mutable view
ExclusiveCalls ==
    {"channel_mut", "channel_mut_write", "as_mut_slices",
     "as_mut_slices_with_length", "as_mut_slices_with_range",
     "instance_mut", "all_instances_mut", "as_mut", "index_mut",
     "write_via", "write", "clear", "clear_frames", "downgrade"}

NextView ==
    \/ NewChannelBuffer
    \/ EmptyChannelBuffer
    \/ NewVarChannelBuffer
    \/ EmptyVarChannelBuffer
    \/ NewChannelBufferRef
    \/ EmptyChannelBufferRef
    \/ NewVarChannelBufferRef
    \/ EmptyVarChannelBufferRef
    \/ NewInstanceChannelBuffer
    \/ EmptyInstanceChannelBuffer
    \/ Channel
    \/ AsRef
    \/ AsMut
    \/ Index
    \/ IndexMut
    \/ WriteVia
    \/ AllInstances
    \/ AllInstancesMut
    \/ Instance
    \/ InstanceMut
    \/ Downgrade

\* construction, the views as_ref / as_mut lend, the index operators, the
\* writes to one channel, and the enumeration of instances
SpecView == Init /\ [][NextView]_vars

\* frame counts at which the products computed by the constructors reach
\* or pass the machine word
LargeFrameArgs ==
    {f \in {(Usize \div c) + d :
                c \in {2, CHANNELS, MAX_CHANNELS, CHANNELS * INSTANCES}, d \in {0, 1}}
             \cup {Usize - 1} :
        f < Usize}

NewChannelBufferLarge ==
    /\ buf.family = "none"
    /\ \E ptr \in AllocAddrs, fr \in LargeFrameArgs, oc \in BOOLEAN :
           /\ buf' = ChannelBuffer_new(ptr, fr, oc)
           /\ ret' = [op |-> "new", family |-> "ChannelBuffer", channels |-> CHANNELS,
                      frames |-> fr, oc |-> oc]
    /\ UNCHANGED <<nwrites, view, new_self, stray>>

NewVarChannelBufferLarge ==
    /\ buf.family = "none"
    /\ \E ptr \in AllocAddrs, ch \in 1..MAX_CHANNELS, fr \in LargeFrameArgs,
          oc \in BOOLEAN :
           /\ buf' = VarChannelBuffer_new(ptr, ch, fr, oc)
           /\ ret' = [op |-> "new", family |-> "VarChannelBuffer", channels |-> ch,
                      frames |-> fr, oc |-> oc]
    /\ UNCHANGED <<nwrites, view, new_self, stray>>

NewInstanceChannelBufferLarge ==
    /\ buf.family = "none"
    /\ \E ptr \in AllocAddrs, n \in 0..MaxInstArg, fr \in LargeFrameArgs,
          oc \in BOOLEAN :
           /\ buf' = InstanceChannelBuffer_new(ptr, n, fr, oc)
           /\ ret' = [op |-> "new", family |-> "InstanceChannelBuffer",
                      num_instances |-> n, frames |-> fr, oc |-> oc]
    /\ UNCHANGED <<nwrites, view, new_self, stray>>

NextLarge ==
    \/ NewChannelBufferLarge
    \/ NewVarChannelBufferLarge
    \/ NewInstanceChannelBufferLarge
    \/ Channel
    \/ AsSlices
    \/ Instance

\* the owned constructors called with frame counts near the machine word,
\* and the accessors on what they return
SpecLarge == Init /\ [][NextLarge]_vars

(***************************************************************************)
(* Properties.                                                             *)
(***************************************************************************)

\* C1: the slices as_slices() / as_mut_slices() return together, one per
\* channel and each frames() long, cover pairwise non-overlapping address
\* ranges.
C1_SlicesPairwiseDisjoint ==
    (ret.op \in {"as_slices", "as_mut_slices"}) =>
        /\ Len(ret.slices) = channels(buf)
        /\ \A i \in 1..Len(ret.slices) : ret.slices[i].len = frames(buf)
        /\ \A i, j \in 1..Len(ret.slices) :
               (i # j) =>
                   \/ ret.slices[i].ptr + ret.slices[i].len <= ret.slices[j].ptr
                   \/ ret.slices[j].ptr + ret.slices[j].len <= ret.slices[i].ptr

C1_Witness ==
    /\ ret.op = "as_mut_slices"
    /\ frames(buf) >= 2
    /\ channels(buf) >= 2

\* C2: channel-major layout: channel(i) is frames() long and its element j
\* is the element at raw()[i*frames() + j]; a value written through
\* channel_mut(i)[j] is read back at raw()[i*frames() + j] and at
\* as_slices()[i][j].
C2_ChannelMajorLayout ==
    /\ (ret.op \in {"channel", "channel_mut"} /\ ret.result.some) =>
           /\ ret.result.val.len = frames(buf)
           /\ \A j \in 0..(frames(buf) - 1) :
                  ret.result.val.ptr + j = buf.ptr + ret.index * frames(buf) + j
    /\ (ret.op = "channel_mut_write") =>
           /\ raw(buf)[ret.index * frames(buf) + ret.j + 1] = ret.v
           /\ slice_read(buf, as_slices(buf)[ret.index + 1], ret.j) = ret.v

C2_Witness ==
    /\ ret.op = "channel_mut_write"
    /\ ret.index = 1
    /\ ret.j = 1
    /\ ret.v # Default

C6_InstanceRunsInsideRaw ==
    (buf.family = "InstanceChannelBuffer") =>
        /\ \A inst \in 0..(num_instances(buf) - 1), ch \in 0..(CHANNELS - 1) :
               inst * CHANNELS * frames(buf) + (ch + 1) * frames(buf) <= Len(raw(buf))
        /\ (ret.op = "instance" /\ ret.result.some) =>
               /\ ret.result.val.ptr >= buf.ptr
               /\ ret.result.val.ptr + ret.result.val.len <= buf.ptr + Len(raw(buf))

\* C7: after InstanceChannelBuffer::new(n, frames), num_instances() == n and
\* raw().len() == num_instances() * CHANNELS * frames().
C7_NumInstancesIsRuntime ==
    (ret.op = "new" /\ buf.family = "InstanceChannelBuffer") =>
        /\ num_instances(buf) = ret.num_instances
        /\ Len(raw(buf)) = num_instances(buf) * CHANNELS * frames(buf)

\* C8: channel(index) / channel_mut(index) leave the buffer as it is, return
\* None exactly when index >= channels(), and otherwise a slice frames() long.
C8_CheckedChannelAbsence ==
    [][(ret'.op \in {"channel", "channel_mut"}) =>
           /\ buf' = buf
           /\ ret'.result.some <=> (ret'.index < channels(buf))
           /\ ret'.result.some => (ret'.result.val.len = frames(buf))
           /\ (~ret'.result.some) => (ret'.result = [some |-> FALSE])]_vars

C8_Witness ==
    /\ ret.op = "channel_mut"
    /\ buf.family \in VarFamilies
    /\ ret.index = channels(buf)
    /\ ret.index < MAX_CHANNELS
    /\ ~ret.result.some

\* C9: as_slices_with_length(n) / as_mut_slices_with_length(n) return
\* channels() slices, each the first min(n, frames()) elements of its channel.
C9_WithLengthClamps ==
    (ret.op \in {"as_slices_with_length", "as_mut_slices_with_length"}) =>
        LET m == IF ret.n < frames(buf) THEN ret.n ELSE frames(buf)
        IN  /\ Len(ret.slices) = channels(buf)
            /\ \A i \in 1..channels(buf) :
                   /\ ret.slices[i].len = m
                   /\ ret.slices[i].ptr = buf.ptr + (i - 1) * frames(buf)

C9_Witness ==
    /\ ret.op = "as_mut_slices_with_length"
    /\ frames(buf) >= 1
    /\ ret.n > frames(buf)
    /\ channels(buf) >= 2

\* C10: for any range a..b, as_slices_with_range(a..b) /
\* as_mut_slices_with_range(a..b) return channels() slices, each
\* channel(i)[min(a, frames()) .. min(b, frames())], of length
\* min(b, frames()) - min(a, frames()), zero whenever a >= frames().
C10_WithRangeClamps ==
    (ret.op \in {"as_slices_with_range", "as_mut_slices_with_range"}) =>
        LET lo == IF ret.start < frames(buf) THEN ret.start ELSE frames(buf)
            hi == IF ret.end < frames(buf) THEN ret.end ELSE frames(buf)
        IN  /\ ~ret.result.panicked
            /\ Len(ret.result.slices) = channels(buf)
            /\ \A i \in 1..Len(ret.result.slices) :
                   /\ ret.result.slices[i].len = hi - lo
                   /\ (ret.start >= frames(buf)) => (ret.result.slices[i].len = 0)
                   /\ ret.result.slices[i].ptr = buf.ptr + (i - 1) * frames(buf) + lo

\* C11: a frame-range request never fails: for any bounds a, b, in any
\* order, as_slices_with_range(a..b) / as_mut_slices_with_range(a..b)
\* complete, the clamped difference does not underflow, and every slice
\* returned is at most frames() long and lies inside its channel.
C11_RangeNeverFails ==
    (ret.op \in {"as_slices_with_range", "as_mut_slices_with_range"}) =>
        /\ ~ret.result.panicked
        /\ min(ret.end, frames(buf)) - min(ret.start, frames(buf)) >= 0
        /\ \A i \in 1..Len(ret.result.slices) :
               /\ ret.result.slices[i].len <= frames(buf)
               /\ ret.result.slices[i].ptr >= buf.offsets[i]
               /\ ret.result.slices[i].ptr + ret.result.slices[i].len
                      <= buf.offsets[i] + frames(buf)

\* C12: after clear() on an owned buffer or a mutable view, whatever it
\* held before, every element of raw() is the default value, and frames(),
\* channels() and raw().len() are what they were before the call.
C12_ClearDefaultsAll ==
    [][\A obj \in Objects :
           (ret'.op = "clear" /\ ret'.outcome # "abort" /\ ret'.obj = obj) =>
               LET before == observe(Target(obj))
                   after == observe(Target(obj))'
               IN  /\ \A k \in 1..Len(after.raw) : after.raw[k] = Default
                   /\ Len(after.raw) = Len(before.raw)
                   /\ after.frames = before.frames
                   /\ after.channels = before.channels]_vars

C12_Witness ==
    /\ ret.op = "clear"
    /\ ret.obj = "buf"
    /\ ret.changed
    /\ buf.family = "ChannelBufferRefMut"
    /\ Len(raw(buf)) = 2 * CHANNELS - 1

\* C13: after clear_frames(k), in every channel the elements at frames
\* below min(k, frames()) are the default value and every element at a
\* frame from min(k, frames()) on has the value it had before the call.
C13_ClearFramesPrefixOnly ==
    [][\A obj \in Objects :
           (ret'.op = "clear_frames" /\ ret'.outcome # "abort" /\ ret'.obj = obj) =>
               LET t == Target(obj)
                   m == IF ret'.k < frames(t) THEN ret'.k ELSE frames(t)
               IN  \A i \in 0..(channels(t) - 1), j \in 0..(frames(t) - 1) :
                       mem(t.offsets[i + 1] + j)' =
                           IF j < m THEN Default ELSE mem(t.offsets[i + 1] + j)]_vars

C13_Witness ==
    /\ ret.op = "clear_frames"
    /\ ret.k = 1
    /\ ret.changed
    /\ frames(Target(ret.obj)) >= 2
    /\ \E i \in 1..channels(Target(ret.obj)) :
           mem(Target(ret.obj).offsets[i] + 1) # Default

\* C14: clone() of a ChannelBuffer or VarChannelBuffer yields a buffer with
\* the same channels(), frames() and raw() content, in an allocation of its
\* own with the channel starts computed for that allocation; a later write
\* to the clone leaves raw() of the original as it was, and a later write
\* to the original leaves raw() of the clone as it was.
C14_CloneIsIndependent ==
    [][/\ (ret'.op = "clone" /\ buf.family \in OwnedFamilies) =>
              /\ new_self'.family = buf.family
              /\ channels(new_self') = channels(buf)
              /\ frames(new_self') = frames(buf)
              /\ raw(new_self') = raw(buf)
              /\ buf' = buf
              /\ new_self'.ptr # buf.ptr
              /\ Alloc(new_self') \cap Alloc(buf) = {}
              /\ \A i \in 0..(channels(buf) - 1) :
                     new_self'.offsets[i + 1] = new_self'.ptr + i * frames(buf)
       /\ (new_self.family \in OwnedFamilies
              /\ ret'.op \in {"write", "clear", "clear_frames"}) =>
              /\ (ret'.obj = "new_self") => (raw(buf') = raw(buf))
              /\ (ret'.obj = "buf") => (raw(new_self') = raw(new_self))
       /\ (new_self.family \in OwnedFamilies /\ ret'.op = "channel_mut_write") =>
              raw(new_self') = raw(new_self)]_vars

C14_Witness ==
    /\ ret.op = "write"
    /\ ret.obj = "new_self"
    /\ new_self.family = "VarChannelBuffer"
    /\ ret.v # Default
    /\ raw(new_self) # raw(buf)
    /\ Len(raw(new_self)) = Len(raw(buf))

\* C15: clone() of an InstanceChannelBuffer built by new(n, frames), for any
\* n and frames, completes and yields a buffer of its own with the same
\* num_instances(), frames() and raw() content.
C15_InstanceCloneCompletes ==
    (ret.op = "clone" /\ buf.family = "InstanceChannelBuffer") =>
        /\ ~ret.panicked
        /\ new_self.family = "InstanceChannelBuffer"
        /\ num_instances(new_self) = num_instances(buf)
        /\ frames(new_self) = frames(buf)
        /\ raw(new_self) = raw(buf)
        /\ Alloc(new_self) \cap Alloc(buf) = {}

\* C16: every VarChannelBuffer, VarChannelBufferRef and
\* VarChannelBufferRefMut that new, empty, clone, as_ref, as_mut or the
\* downgrade produce has 1 <= channels() <= MAX_CHANNELS, in every
\* reachable state.
C16_VarChannelsInRange ==
    \A obj \in Objects :
        (Target(obj).family \in VarFamilies) =>
            /\ 1 <= channels(Target(obj))
            /\ channels(Target(obj)) <= MAX_CHANNELS

C16_Witness ==
    /\ ret.op = "downgrade"
    /\ ret.obj = "view"
    /\ view.family = "VarChannelBufferRef"
    /\ channels(view) = MAX_CHANNELS
    /\ new_self.family = "VarChannelBuffer"
    /\ channels(buf) = MAX_CHANNELS

\* C17: VarChannelBuffer::new, VarChannelBufferRef::new and
\* VarChannelBufferRefMut::new with channels > MAX_CHANNELS panic: no buffer
\* or view is produced and the slice supplied is as the caller passed it.
C17_ChannelsOverCapPanics ==
    (ret.op = "new" /\ ret.family \in VarFamilies /\ ret.channels > MAX_CHANNELS) =>
        /\ buf.family = "panic"
        /\ buf.offsets = <<>>
        /\ view = NoView
        /\ new_self = NoBuffer
        /\ (ret.family \in BorrowedFamilies) => (buf.data = ret.data)

C17_Witness ==
    /\ ret.op = "new"
    /\ ret.family = "VarChannelBufferRefMut"
    /\ ret.channels = MAX_CHANNELS + 1
    /\ buf.family = "panic"
    /\ Len(ret.data) = MaxLen
    /\ ret.data[1] # Default

\* C18: a VarChannelBuffer offers set_num_channels(n): from every state, for
\* every n in 1..MAX_CHANNELS other than the current count, the API has a
\* call after which channels() == n, raw().len() == n * frames(), the
\* channels below min(old count, n) hold what they held, every other
\* element is the default value, and the channel starts are those of n
\* channels.
C18_OffersSetNumChannels ==
    (buf.family = "VarChannelBuffer" /\ Unborrowed) =>
        \A n \in 1..MAX_CHANNELS :
            (n # channels(buf)) =>
                ENABLED (/\ (Next \/ NextMut)
                         /\ buf'.family = "VarChannelBuffer"
                         /\ channels(buf') = n
                         /\ frames(buf') = frames(buf)
                         /\ Len(raw(buf')) = n * frames(buf)
                         /\ \A k \in 1..Len(raw(buf')) :
                                raw(buf')[k] =
                                    IF k <= Len(raw(buf)) THEN raw(buf)[k]
                                    ELSE Default
                         /\ \A i \in 0..(n - 1) :
                                buf'.offsets[i + 1] = buf'.ptr + i * frames(buf))

\* C19: for every i < num_instances(), instance(i) and instance_mut(i)
\* return a view over block i only: its raw() is the parent's
\* raw()[i*L .. (i+1)*L] with L = CHANNELS*frames(), its frames() and
\* channels() are the parent's, and its channel(c)[j] is the parent's
\* raw()[i*L + c*frames() + j]; for i >= num_instances() they return None.
C19_InstanceViewIsBlock ==
    (ret.op \in {"instance", "instance_mut"}) =>
        IF ret.index < num_instances(buf)
        THEN /\ ret.result.some
             /\ LET v == ret.result.val
                    i == ret.index
                    L == CHANNELS * frames(buf)
                IN  /\ raw_mut(v).ptr = buf.ptr + i * L
                    /\ raw_mut(v).len = L
                    /\ (i + 1) * L <= Len(raw(buf))
                    /\ contents(v) = [k \in 1..L |-> raw(buf)[i * L + k]]
                    /\ frames(v) = frames(buf)
                    /\ channels(v) = CHANNELS
                    /\ \A c \in 0..(CHANNELS - 1) :
                           /\ channel(v, c).some
                           /\ channel(v, c).val.len = frames(buf)
                           /\ \A j \in 0..(frames(buf) - 1) :
                                  channel(v, c).val.ptr + j
                                      = buf.ptr + i * L + c * frames(buf) + j
        ELSE ret.result = None

\* C20: a mutation made through the view of instance_mut(i) (clear,
\* clear_frames, a write through one of its mutable slices) stores to
\* elements of block i of the parent's raw() only: nothing outside the
\* parent's region is written, and every element of the parent's raw()
\* outside [i*L, (i+1)*L), L = CHANNELS*frames(), is what it was.
C20_InstanceMutStaysInBlock ==
    [][(/\ buf.family = "InstanceChannelBuffer"
        /\ view.family = "ChannelBufferRefMut"
        /\ ret'.op \in {"write", "clear", "clear_frames"}
        /\ ret'.obj = "view") =>
           \E i \in 0..(num_instances(buf) - 1) :
               /\ view.offsets = buf.offsets[i + 1]
               /\ ret'.outcome = "done"
               /\ stray' = stray
               /\ Len(raw(buf')) = Len(raw(buf))
               /\ \A k \in 1..Len(raw(buf)) :
                      (k - 1 < i * CHANNELS * frames(buf)
                       \/ k - 1 >= (i + 1) * CHANNELS * frames(buf)) =>
                          raw(buf')[k] = raw(buf)[k]]_vars

C23_EmptyIsValidEmpty ==
    [][(ret.op = "empty") =>
           /\ buf.family = ret.family
           /\ frames(buf) = 0
           /\ Len(raw(buf)) = 0
           /\ (buf.family \in FixedFamilies) => (channels(buf) = CHANNELS)
           /\ (buf.family \in VarFamilies) => (channels(buf) = 1)
           /\ (buf.family = "InstanceChannelBuffer") =>
                  \A i \in 0..(INSTANCES - 1) :
                      /\ instance(buf, i).some
                      /\ instance(buf, i).val.len = 0
                      /\ instance(buf, i).val.frames = 0
           /\ (buf.family \in ChannelFamilies) =>
                  \A i \in 0..(channels(buf) - 1) :
                      /\ channel(buf, i).some
                      /\ channel(buf, i).val.len = 0
           /\ (ret'.op \in {"channel", "channel_mut"} /\ ret'.index < channels(buf)) =>
                  /\ ret'.result.some
                  /\ ret'.result.val.len = 0
                  /\ buf' = buf]_vars

C23_Witness ==
    /\ ret.op = "empty"
    /\ buf.family = "VarChannelBufferRefMut"
    /\ channel(buf, 0).some
    /\ ~channel(buf, 1).some

\* C24: the read-only view that into() makes of a mutable borrowed view
\* (ChannelBufferRefMut -> ChannelBufferRef, VarChannelBufferRefMut ->
\* VarChannelBufferRef) has the frames(), channels() and raw() content the
\* mutable view had and, for every i, the same channel(i); no element is
\* changed by the conversion.
C24_DowngradePreservesView ==
    [][\A obj \in {"buf", "view"} :
           (ret'.op = "downgrade" /\ ret'.obj = obj) =>
               /\ Target(obj).family \in {"ChannelBufferRefMut", "VarChannelBufferRefMut"}
               /\ Target(obj)'.family =
                      (IF Target(obj).family = "ChannelBufferRefMut"
                       THEN "ChannelBufferRef" ELSE "VarChannelBufferRef")
               /\ frames(Target(obj))' = frames(Target(obj))
               /\ channels(Target(obj))' = channels(Target(obj))
               /\ observe(Target(obj))' = observe(Target(obj))
               /\ \A i \in IndexArgs :
                      channel(Target(obj), i)' = channel(Target(obj), i)
               /\ raw(buf') = raw(buf)
               /\ stray' = stray]_vars

C24_Witness ==
    /\ ret.op = "downgrade"
    /\ ret.obj = "buf"
    /\ buf.family = "VarChannelBufferRef"
    /\ channels(buf) = 1
    /\ Len(raw(buf)) = 3
    /\ \E k \in 1..Len(raw(buf)) : raw(buf)[k] # Default

\* C25: no safe call on an existing owned buffer, on a view borrowed from
\* it or on its clone (clear, clear_frames, stores through the mutable
\* slices, as_ref, as_mut, clone, the downgrade) changes the buffer's
\* frames(), channels(), raw().len(), the address of its allocation or
\* the start of any channel: channel i starts at flat index i*frames() as
\* at construction, and the view borrowed from it has the same starts.
C25_ShapeIsFrozen ==
    [][(buf.family \in OwnedFamilies) =>
           /\ buf'.family = buf.family
           /\ frames(buf') = frames(buf)
           /\ channels(buf') = channels(buf)
           /\ Len(raw(buf')) = Len(raw(buf))
           /\ buf'.ptr = buf.ptr
           /\ buf'.offsets = buf.offsets
           /\ \A i \in 0..(channels(buf') - 1) :
                  buf'.offsets[i + 1] = buf'.ptr + i * frames(buf')
           /\ Len(raw(buf')) = channels(buf') * frames(buf')
           /\ (view'.family # "none") =>
                  /\ view'.offsets = buf'.offsets
                  /\ view'.frames = buf'.frames
                  /\ view'.ptr = buf'.ptr
                  /\ view'.len = Len(raw(buf'))
           /\ (new_self.family # "none") =>
                  /\ new_self'.offsets = new_self.offsets
                  /\ new_self'.frames = new_self.frames
                  /\ Len(raw(new_self')) = Len(raw(new_self))]_vars

C25_Witness ==
    /\ buf.family = "VarChannelBuffer"
    /\ channels(buf) = 2
    /\ frames(buf) = 2
    /\ view.family = "VarChannelBufferRefMut"
    /\ ret.op = "clear_frames"
    /\ ret.obj = "view"
    /\ ret.changed

C27_ViewEquivalentToOwner ==
    [][(buf.family \in OwnedFamilies /\ view'.family # "none") =>
           /\ view'.family \in
                  (IF buf.family = "ChannelBuffer"
                   THEN {"ChannelBufferRef", "ChannelBufferRefMut"}
                   ELSE {"VarChannelBufferRef", "VarChannelBufferRefMut"})
           /\ frames(view') = frames(buf')
           /\ channels(view') = channels(buf')
           /\ contents(view)' = raw(buf')
           /\ \A i \in IndexArgs : channel(view', i) = channel(buf', i)
           /\ (ret'.op = "write_via" /\ ret'.obj = "view") =>
                  /\ ret'.outcome = "done"
                  /\ channel(buf', ret'.index).some
                  /\ slice_read(buf', channel(buf', ret'.index).val, ret'.j) = ret'.v
                  /\ raw(buf')[ret'.index * frames(buf') + ret'.j + 1] = ret'.v]_vars

C27_Witness ==
    /\ ret.op = "write_via"
    /\ ret.obj = "view"
    /\ buf.family = "VarChannelBuffer"
    /\ view.family = "VarChannelBufferRefMut"
    /\ channels(buf) = 1
    /\ frames(buf) = 2
    /\ ret.index = 0
    /\ ret.j = 1
    /\ ret.v # Default

\* C28: all_instances_mut() returns INSTANCES mutable views, alive
\* together, that are mutually disjoint: the raw() regions of two distinct
\* views do not overlap, and for two distinct (instance, channel) pairs the
\* channel runs, which start at flat index inst*CHANNELS*frames() +
\* ch*frames() and are frames() long, do not overlap.
C28_AllInstancesMutDisjoint ==
    (ret.op = "all_instances_mut") =>
        /\ Len(ret.result) = INSTANCES
        /\ \A a \in 1..INSTANCES :
               /\ ret.result[a].family = "ChannelBufferRefMut"
               /\ frames(ret.result[a]) = frames(buf)
               /\ \A c \in 0..(CHANNELS - 1) :
                      /\ channel_mut(ret.result[a], c).some
                      /\ channel_mut(ret.result[a], c).val.len = frames(buf)
                      /\ channel_mut(ret.result[a], c).val.ptr - buf.ptr
                             = (a - 1) * CHANNELS * frames(buf) + c * frames(buf)
                      /\ addrs(channel_mut(ret.result[a], c).val)
                             \subseteq addrs(raw_mut(ret.result[a]))
        /\ \A a, b \in 1..INSTANCES :
               (a # b) =>
                   addrs(raw_mut(ret.result[a])) \cap addrs(raw_mut(ret.result[b])) = {}
        /\ \A a, b \in 1..INSTANCES, c, d \in 0..(CHANNELS - 1) :
               (a # b \/ c # d) =>
                   addrs(channel_mut(ret.result[a], c).val)
                       \cap addrs(channel_mut(ret.result[b], d).val) = {}

C28_Witness ==
    /\ ret.op = "all_instances_mut"
    /\ frames(buf) = 2
    /\ Len(raw(buf)) = INSTANCES * CHANNELS * 2

\* C29: t[i] through Index / IndexMut, on every buffer and view: for
\* i < channels() it is the slice channel(i) / channel_mut(i) returns, for
\* i >= channels() the call panics and returns nothing; either way no
\* element of the buffer is changed.
C29_IndexIsCheckedChannel ==
    [][\A obj \in {"buf", "view"} :
           (ret'.op \in {"index", "index_mut"} /\ ret'.obj = obj) =>
               /\ IF ret'.index < channels(Target(obj))
                  THEN /\ ~ret'.result.panicked
                       /\ channel(Target(obj), ret'.index).some
                       /\ ret'.result.val =
                              (IF ret'.op = "index"
                               THEN channel(Target(obj), ret'.index).val
                               ELSE channel_mut(Target(obj), ret'.index).val)
                       /\ ret'.result.val.ptr =
                              Target(obj).ptr + ret'.index * frames(Target(obj))
                       /\ ret'.result.val.len = frames(Target(obj))
                  ELSE /\ ret'.result.panicked
                       /\ "val" \notin DOMAIN ret'.result
                       /\ ~channel(Target(obj), ret'.index).some
               /\ buf' = buf
               /\ view' = view
               /\ contents(Target(obj))' = contents(Target(obj))]_vars

C29_Witness ==
    /\ ret.op = "index_mut"
    /\ ret.obj = "view"
    /\ view.family = "VarChannelBufferRefMut"
    /\ ret.index = channels(view)
    /\ ret.index < MAX_CHANNELS
    /\ ret.result.panicked
    /\ \E k \in 1..Len(raw(buf)) : raw(buf)[k] # Default

\* C30: the owned constructors compute the buffer length in machine-word
\* arithmetic, and for every argument value, also when the exact product
\* CHANNELS*frames, channels*frames or frames*CHANNELS*num_instances
\* exceeds the word, they never return a buffer in which a channel run
\* [i*frames(), (i+1)*frames()) extends past raw().len(): either no buffer
\* is returned, or every channel run (of every instance below the
\* requested number) ends inside raw().
C30_NoRunPastRawOnOverflow ==
    (ret.op = "new" /\ buf.family # "panic") =>
        /\ (buf.family \in OwnedFamilies) =>
               \A i \in 0..(channels(buf) - 1) :
                   /\ (i + 1) * frames(buf) <= Len(raw(buf))
                   /\ buf.offsets[i + 1] = buf.ptr + i * frames(buf)
        /\ (buf.family = "InstanceChannelBuffer") =>
               \A inst \in 0..(min(ret.num_instances, INSTANCES) - 1),
                  ch \in 0..(CHANNELS - 1) :
                   inst * CHANNELS * frames(buf) + (ch + 1) * frames(buf)
                       <= Len(raw(buf))

====
